---- MODULE Spec2Model ----
(***************************************************************************)
(* Model of src/app.py: the MT4 bridge.  Two process-wide stores, the      *)
(* history deque (history_lock) and the command list (commands_lock,       *)
(* cmd_counter), are shared by request handlers that run concurrently,     *)
(* one per worker thread.  Every handler is cut at its lock acquisitions,  *)
(* so that all interleavings the locks allow are explored.                 *)
(*                                                                         *)
(* Text is a sequence of one-character strings.  A request body is a       *)
(* sequence of JSON lexemes (one lexeme per element).                      *)
(***************************************************************************)
EXTENDS Integers, Sequences, FiniteSets, TLC

\* ------------------------------------------------------------------ bounds
NThreads == 2
MaxRequests == 3
MaxDeleteIndex == 1
MaxFormRequests == 2
MaxBodyRequests == 2
MaxRingRequests == 52
MaxFairRequests == 2

\* ------------------------------------------------------- program constants
MAX_HISTORY == 50
TRAIL_MAX == 200

Threads == 1..NThreads

\* ------------------------------------------------------------ text helpers
WS == {" ", "\n"}
Digits == {"0", "1", "2", "3", "4", "5", "6", "7", "8", "9"}

UpperChar(c) ==
  CASE c = "a" -> "A" [] c = "b" -> "B" [] c = "d" -> "D" [] c = "e" -> "E"
    [] c = "f" -> "F" [] c = "h" -> "H" [] c = "i" -> "I" [] c = "l" -> "L"
    [] c = "n" -> "N" [] c = "o" -> "O" [] c = "s" -> "S" [] c = "t" -> "T"
    [] c = "u" -> "U" [] c = "x" -> "X" [] c = "y" -> "Y" [] OTHER -> c

LowerChar(c) ==
  CASE c = "A" -> "a" [] c = "B" -> "b" [] c = "D" -> "d" [] c = "E" -> "e"
    [] c = "F" -> "f" [] c = "H" -> "h" [] c = "I" -> "i" [] c = "L" -> "l"
    [] c = "N" -> "n" [] c = "O" -> "o" [] c = "S" -> "s" [] c = "T" -> "t"
    [] c = "U" -> "u" [] c = "X" -> "x" [] c = "Y" -> "y" [] OTHER -> c

\* str.upper()
Upper(s) == [i \in 1..Len(s) |-> UpperChar(s[i])]

Lower(s) == [i \in 1..Len(s) |-> LowerChar(s[i])]

SetMin(S) == CHOOSE x \in S : \A y \in S : x <= y

SetMax(S) == CHOOSE x \in S : \A y \in S : y <= x

\* str.strip(): drop leading and trailing whitespace
Strip(s) ==
  LET keep == {i \in 1..Len(s) : s[i] \notin WS}
  IN  IF keep = {} THEN <<>> ELSE SubSeq(s, SetMin(keep), SetMax(keep))

\* s[:n]
Prefix(s, n) == SubSeq(s, 1, IF Len(s) < n THEN Len(s) ELSE n)

\* s[i:] for a one-based start position
Suffix(s, i) == SubSeq(s, i, Len(s))

\* --------------------------------------------------------- Python floats
\* A float is k = "fin" with value (-1)^neg * m / 10^e (m carries no
\* trailing zero beyond the point), or "inf", or "nan".  None is k = "none".
None == [k |-> "none", neg |-> FALSE, m |-> 0, e |-> 0]

Fin(neg, m, e) == [k |-> "fin", neg |-> neg, m |-> m, e |-> e]

RECURSIVE Normalise(_, _)
Normalise(m, e) ==
  IF e > 0 /\ m % 10 = 0 THEN Normalise(m \div 10, e - 1) ELSE <<m, e>>

DigitVal(c) ==
  CASE c = "0" -> 0 [] c = "1" -> 1 [] c = "2" -> 2 [] c = "3" -> 3
    [] c = "4" -> 4 [] c = "5" -> 5 [] c = "6" -> 6 [] c = "7" -> 7
    [] c = "8" -> 8 [] c = "9" -> 9

RECURSIVE DigitsVal(_)
DigitsVal(s) ==
  IF s = <<>> THEN 0
  ELSE 10 * DigitsVal(SubSeq(s, 1, Len(s) - 1)) + DigitVal(s[Len(s)])

\* float(s) for s already stripped: [ok, val]; ok = FALSE is ValueError.
\* The texts read are an optional sign followed by digits with at most one
\* point, or by nan, inf or infinity in any case (no exponent, no underscore).
ParseFloat(s) ==
  LET signed == s # <<>> /\ s[1] \in {"+", "-"}
      neg    == s # <<>> /\ s[1] = "-"
      body   == IF signed THEN Tail(s) ELSE s
      low    == Lower(body)
      dots   == {i \in 1..Len(body) : body[i] = "."}
      digs   == SelectSeq(body, LAMBDA c : c \in Digits)
      e      == IF dots = {} THEN 0 ELSE Len(body) - SetMin(dots)
      norm   == Normalise(DigitsVal(digs), e)
  IN  IF low = <<"n", "a", "n">>
        THEN [ok |-> TRUE, val |-> [k |-> "nan", neg |-> FALSE, m |-> 0, e |-> 0]]
      ELSE IF low \in {<<"i", "n", "f">>, <<"i", "n", "f", "i", "n", "i", "t", "y">>}
        THEN [ok |-> TRUE, val |-> [k |-> "inf", neg |-> neg, m |-> 0, e |-> 0]]
      ELSE IF /\ digs # <<>>
              /\ Cardinality(dots) <= 1
              /\ \A i \in 1..Len(body) : body[i] \in Digits \cup {"."}
        THEN [ok |-> TRUE, val |-> Fin(neg, norm[1], norm[2])]
      ELSE [ok |-> FALSE, val |-> None]

RECURSIVE NatText(_)
NatText(n) ==
  LET d == SubSeq(<<"0", "1", "2", "3", "4", "5", "6", "7", "8", "9">>,
                  (n % 10) + 1, (n % 10) + 1)
  IN  IF n < 10 THEN d ELSE NatText(n \div 10) \o d

RECURSIVE PadZeros(_, _)
PadZeros(s, n) == IF Len(s) >= n THEN s ELSE PadZeros(<<"0">> \o s, n)

\* f"{x}" for a float x (repr): 0.1, 1.0, -1.0, nan, inf
FloatText(x) ==
  LET sign  == IF x.neg THEN <<"-">> ELSE <<>>
      all   == PadZeros(NatText(x.m), x.e + 1)
      whole == SubSeq(all, 1, Len(all) - x.e)
      frac  == IF x.e = 0 THEN <<"0">> ELSE SubSeq(all, Len(all) - x.e + 1, Len(all))
  IN  CASE x.k = "nan" -> <<"n", "a", "n">>
        [] x.k = "inf" -> sign \o <<"i", "n", "f">>
        [] x.k = "fin" -> sign \o whole \o <<".">> \o frac
        [] OTHER -> <<"N", "o", "n", "e">>

\* ------------------------------------------------------- format_command
\* a rendering that leaves the trailing 0 out when only sl is set
format_commandMutant(cmd) ==
  LET base == cmd.direction \o <<",">> \o cmd.symbol \o <<",">> \o FloatText(cmd.volume)
  IN  IF cmd.sl # None /\ cmd.tp # None
        THEN base \o <<",">> \o FloatText(cmd.sl) \o <<",">> \o FloatText(cmd.tp)
      ELSE IF cmd.sl # None
        THEN base \o <<",">> \o FloatText(cmd.sl)
      ELSE IF cmd.tp # None
        THEN base \o <<",", "0", ",">> \o FloatText(cmd.tp)
      ELSE base

format_command(cmd) ==
  LET base == cmd.direction \o <<",">> \o cmd.symbol \o <<",">> \o FloatText(cmd.volume)
  IN  IF cmd.sl # None /\ cmd.tp # None
        THEN base \o <<",">> \o FloatText(cmd.sl) \o <<",">> \o FloatText(cmd.tp)
      ELSE IF cmd.sl # None
        THEN base \o <<",">> \o FloatText(cmd.sl) \o <<",", "0">>
      ELSE IF cmd.tp # None
        THEN base \o <<",", "0", ",">> \o FloatText(cmd.tp)
      ELSE base

\* ------------------------------------------------- JSON values and decoder
\* A decoded value is [t, v]: t in obj/arr/num/str/bool/null.  An object's v
\* is a function from key to value, an array's v a sequence.  Python's None
\* and the decoded JSON null are the same value.
JNull == [t |-> "null", v |-> 0]

JNum(n) == [t |-> "num", v |-> n]

JStr(x) == [t |-> "str", v |-> x]

JBool(b) == [t |-> "bool", v |-> b]

JArr(items) == [t |-> "arr", v |-> items]

JObj(f) == [t |-> "obj", v |-> f]

EmptyDict == [x \in {} |-> JNull]

\* dict item assignment: d[key] = val
DictPut(f, key, val) ==
  [x \in DOMAIN f \cup {key} |-> IF x = key THEN val ELSE f[x]]

\* Python truth value of a decoded value
Truthy(j) ==
  CASE j.t = "obj"  -> DOMAIN j.v # {}
    [] j.t = "arr"  -> Len(j.v) > 0
    [] j.t = "num"  -> j.v # 0
    [] j.t = "str"  -> j.v # ""
    [] j.t = "bool" -> j.v
    [] OTHER        -> FALSE

\* lexemes of a request body
StrLex == {"\"\"", "\"a\"", "\"account\"", "\"balance\"", "\"positions\"",
           "\"open_time\"", "\"metrics\""}

StrOf(lex) ==
  CASE lex = "\"\"" -> ""
    [] lex = "\"a\"" -> "a"
    [] lex = "\"account\"" -> "account"
    [] lex = "\"balance\"" -> "balance"
    [] lex = "\"positions\"" -> "positions"
    [] lex = "\"open_time\"" -> "open_time"
    [] lex = "\"metrics\"" -> "metrics"

NumLex == Digits

RECURSIVE SkipWs(_, _)
SkipWs(s, i) == IF i <= Len(s) /\ s[i] \in WS THEN SkipWs(s, i + 1) ELSE i

At(s, i) == IF i <= Len(s) THEN s[i] ELSE "<end>"

Fail(msg) == [ok |-> FALSE, val |-> JNull, end |-> 0, err |-> msg]

Done(val, end) == [ok |-> TRUE, val |-> val, end |-> end, err |-> ""]

RECURSIVE ScanOnce(_, _), ScanMembers(_, _, _), ScanItems(_, _, _)
\* scan_once(s, idx): one JSON value starting exactly at position i
ScanOnce(s, i) ==
  LET c == At(s, i)
  IN  CASE c \in StrLex -> Done(JStr(StrOf(c)), i + 1)
        [] c \in NumLex -> Done(JNum(DigitVal(c)), i + 1)
        [] c = "null"   -> Done(JNull, i + 1)
        [] c = "true"   -> Done(JBool(TRUE), i + 1)
        [] c = "false"  -> Done(JBool(FALSE), i + 1)
        [] c = "{" ->
             LET j == SkipWs(s, i + 1)
             IN  IF At(s, j) = "}" THEN Done(JObj(EmptyDict), j + 1)
                 ELSE ScanMembers(s, j, EmptyDict)
        [] c = "[" ->
             LET j == SkipWs(s, i + 1)
             IN  IF At(s, j) = "]" THEN Done(JArr(<<>>), j + 1)
                 ELSE ScanItems(s, j, <<>>)
        [] OTHER -> Fail("Expecting value")

\* JSONObject loop: i is at the next property name
ScanMembers(s, i, acc) ==
  IF At(s, i) \notin StrLex
    THEN Fail("Expecting property name enclosed in double quotes")
  ELSE
    LET key   == StrOf(s[i])
        colon == SkipWs(s, i + 1)
    IN  IF At(s, colon) # ":" THEN Fail("Expecting ':' delimiter")
        ELSE
          LET r == ScanOnce(s, SkipWs(s, colon + 1))
          IN  IF ~r.ok THEN r
              ELSE
                LET acc2 == DictPut(acc, key, r.val)
                    j    == SkipWs(s, r.end)
                IN  IF At(s, j) = "}" THEN Done(JObj(acc2), j + 1)
                    ELSE IF At(s, j) # "," THEN Fail("Expecting ',' delimiter")
                    ELSE ScanMembers(s, SkipWs(s, j + 1), acc2)

\* JSONArray loop: i is at the next element
ScanItems(s, i, acc) ==
  LET r == ScanOnce(s, i)
  IN  IF ~r.ok THEN r
      ELSE
        LET acc2 == Append(acc, r.val)
            j    == SkipWs(s, r.end)
        IN  IF At(s, j) = "]" THEN Done(JArr(acc2), j + 1)
            ELSE IF At(s, j) # "," THEN Fail("Expecting ',' delimiter")
            ELSE ScanItems(s, SkipWs(s, j + 1), acc2)

\* json.JSONDecoder().raw_decode(s): the first value and the position after it
raw_decode(s) == ScanOnce(s, 1)

\* dict.get(key): the value, or None
DictGet(j, key) == IF key \in DOMAIN j.v THEN j.v[key] ELSE JNull

\* parsed_json.get(key) if parsed_json else None
Headline(parsed_json, key) ==
  IF Truthy(parsed_json) THEN DictGet(parsed_json, key) ELSE JNull

\* the record literal evaluates parsed_json.get: AttributeError unless the
\* value is falsy or a dict
RecordRaises(parsed_json) == Truthy(parsed_json) /\ parsed_json.t # "obj"

\* parse_error = None
NoError == "<None>"

\* Python truth value of the parse_error field (None or a message)
ErrorSet(parse_error) == parse_error \notin {NoError, ""}

\* The try block of mt4_webhook (lines 116-141): the locals it leaves.
\* remaining_data = <<>> stands for None (the code never stores an empty
\* remainder).
Decode(raw_body) ==
  LET cleaned_body == Strip(raw_body)
      r            == raw_decode(cleaned_body)
      remaining    == IF r.ok THEN Strip(Suffix(cleaned_body, r.end)) ELSE <<>>
  IN  [parsed_json    |-> IF r.ok THEN r.val ELSE JNull,
       parse_error    |-> IF r.ok THEN NoError ELSE r.err,
       remaining_data |-> Prefix(remaining, TRAIL_MAX)]

\* The record literal (lines 143-160).  seq is not a field of the program's
\* record: it is 0 until the record is appended, then its rank among the
\* appends (it tells which dict is which).
BuildRecord(raw_body) ==
  LET d == Decode(raw_body)
  IN  [seq            |-> 0,
       body_raw       |-> raw_body,
       parsed         |-> d.parsed_json,
       parse_error    |-> d.parse_error,
       remaining_data |-> d.remaining_data,
       account        |-> Headline(d.parsed_json, "account"),
       balance        |-> Headline(d.parsed_json, "balance")]

NoRecord ==
  [seq |-> 0, body_raw |-> <<>>, parsed |-> JNull, parse_error |-> NoError,
   remaining_data |-> <<>>, account |-> JNull, balance |-> JNull]

\* ------------------------------------------------ extract_latest_details
\* The loop over positions (lines 65-72) writes open_time_str into every
\* position that is a dict and raises TypeError at the first one that is not.
RECURSIVE MarkPositions(_, _)
MarkPositions(items, i) ==
  IF i > Len(items) THEN [raises |-> FALSE, items |-> items]
  ELSE IF items[i].t # "obj" THEN [raises |-> TRUE, items |-> items]
  ELSE
    LET pos  == items[i].v
        text == IF "open_time" \in DOMAIN pos /\ pos["open_time"].t \in {"num", "bool"}
                  THEN JStr("<time>") ELSE JStr("N/A")
    IN  MarkPositions([items EXCEPT ![i] = JObj(DictPut(pos, "open_time_str", text))],
                      i + 1)

\* [raises, record]: whether the call raises, and the record as the call
\* leaves it (the record is the very dict held by the history)
extract_latest_details(rec) ==
  LET parsed    == rec.parsed
      same      == [raises |-> FALSE, record |-> rec]
      metrics   == IF "metrics" \in DOMAIN parsed.v THEN parsed.v["metrics"]
                   ELSE JObj(EmptyDict)
      positions == IF "positions" \in DOMAIN parsed.v THEN parsed.v["positions"]
                   ELSE JArr(<<>>)
      marked    == MarkPositions(positions.v, 1)
      rec2      == [rec EXCEPT !.parsed =
                      JObj(DictPut(parsed.v, "positions", JArr(marked.items)))]
  IN  IF ErrorSet(rec.parse_error) THEN same
      ELSE IF parsed.t = "null" THEN same
      ELSE IF parsed.t # "obj" THEN [raises |-> TRUE, record |-> rec]
      ELSE IF positions.t = "arr"
        THEN IF "positions" \in DOMAIN parsed.v
               THEN [raises |-> marked.raises \/ metrics.t # "obj", record |-> rec2]
               ELSE [raises |-> metrics.t # "obj", record |-> rec]
      ELSE IF positions.t = "str" /\ positions.v = ""
        THEN [raises |-> metrics.t # "obj", record |-> rec]
      ELSE IF positions.t = "obj" /\ DOMAIN positions.v = {}
        THEN [raises |-> metrics.t # "obj", record |-> rec]
      ELSE [raises |-> TRUE, record |-> rec]

\* ------------------------------------------------------------------ inputs
Form(symbol, direction, volume, sl, tp) ==
  [symbol |-> symbol, direction |-> direction, volume |-> volume,
   sl |-> sl, tp |-> tp]

T_EU == <<"e", "u">>
T_BUY == <<"b", "u", "y">>
T_SELL == <<" ", "S", "E", "L", "L">>
T_HOLD == <<"h", "o", "l", "d">>
T_01 == <<"0", ".", "1", "0">>
T_11 == <<"1", ".", "1">>

\* forms the concurrent specification submits
Forms ==
  { Form(T_EU, T_BUY, T_01, <<>>, <<>>),
    Form(T_EU, T_SELL, <<"-", "1">>, T_11, <<>>),
    Form(<<" ">>, T_BUY, T_01, <<>>, <<>>) }

\* forms of the validation specification
AllForms ==
  Forms \cup
  { Form(T_EU, T_BUY, <<"2">>, <<>>, <<"0">>),
    Form(T_EU, T_BUY, <<"2">>, T_11, <<"3">>),
    Form(T_EU, T_BUY, <<"0">>, <<>>, <<>>),
    Form(T_EU, T_BUY, <<"n", "a", "n">>, <<>>, <<>>),
    Form(T_EU, T_BUY, <<"I", "n", "f">>, <<>>, <<>>),
    Form(<<>>, T_BUY, <<"1">>, <<>>, <<>>),
    Form(T_EU, T_HOLD, <<"1">>, <<>>, <<>>),
    Form(T_EU, <<>>, <<"1">>, <<>>, <<>>),
    Form(T_EU, T_BUY, <<>>, <<>>, <<>>),
    Form(T_EU, T_BUY, <<" ">>, <<>>, <<>>),
    Form(T_EU, T_BUY, <<"a">>, <<>>, <<>>),
    Form(T_EU, T_BUY, <<"1">>, <<"x">>, <<>>),
    Form(T_EU, T_BUY, <<"1">>, <<>>, <<"1", ".", "1", ".">>) }

B_OBJ == <<"{", "\"account\"", ":", "5", "}">>
B_BAD == <<"x">>
B_NUM == <<"5">>
B_EMPTY == <<>>
B_BLANK == <<" ", "\n">>
B_OPEN == <<"{", "\"a\"", ":", "1">>
B_ZERO == <<"0">>
B_STR == <<"\"a\"">>
B_TRUE == <<"true">>
B_FALSE == <<"false">>
B_NULL == <<"null">>
B_ARR == <<" ", "[", "1", ",", " ", "2", "]">>
B_ARR0 == <<"[", "]">>
B_OBJ0 == <<"{", "}">>
B_TWO == <<"{", "\"a\"", ":", "1", "}", " ", "{", "\"balance\"", ":", "2", "}", "\n">>
B_POS == <<"{", "\"positions\"", ":", "[", "{", "\"open_time\"", ":", "7", "}", ",",
           "{", "}", "]", "}">>
B_TAIL == <<"5", "{", "}">>
\* an empty object followed by more characters than the record keeps
B_LONG == <<"{", "}">> \o [i \in 1..(TRAIL_MAX + 5) |-> "1"]

\* bodies the concurrent specification posts
Bodies == {B_OBJ, B_NUM}

\* bodies of the parsing specification
AllBodies ==
  Bodies \cup {B_BAD, B_EMPTY, B_BLANK, B_OPEN, B_ZERO, B_STR, B_TRUE, B_FALSE, B_NULL,
               B_ARR, B_ARR0, B_OBJ0, B_TWO, B_POS, B_TAIL, B_LONG}

\* ------------------------------------------------------------------- state
VARIABLES
  history,        \* the deque: history[1] is its left end
  history_lock,   \* 0 when free, else the thread holding it
  commands,       \* the command list, front first
  commands_lock,  \* 0 when free, else the thread holding it
  cmd_counter,
  pc,             \* where each worker thread is in its handler
  record,         \* mt4_webhook: the record built by the thread
  response_lines, \* mt4_webhook: the lines formatted by the thread
  cmd,            \* send_command: the command built by the thread
  index,          \* delete_command: the position argument of the thread
  hist_list,      \* index: the snapshot taken by the thread
  cmds_copy,      \* index: the copy of the command list
  response,       \* the response most recently returned by a handler
  rid,            \* the turn at the outbox lock each thread is taking, or 0
  turns,          \* number of turns taken at the outbox lock so far
  started,        \* number of requests started
  appends,        \* number of records appended so far
  appended,       \* every command appended by send_command, in that order
  removed,        \* every removal from the command list: how, by whom, which
  delivered,      \* every command put into an ingestion response: by whom, which
  seen,           \* the command list as each thread found it when it locked it
  recorded        \* whether the request of each thread has appended its record

vars == <<history, history_lock, commands, commands_lock, cmd_counter, pc,
          record, response_lines, cmd, index, hist_list, cmds_copy, response,
          rid, turns, started, appends, appended, removed, delivered, seen,
          recorded>>

NoCmd ==
  [id |-> -1, uid |-> 0, symbol |-> <<>>, direction |-> <<>>, volume |-> None,
   sl |-> None, tp |-> None]

NoResponse == [handler |-> "none", status |-> 0, body |-> <<>>]

\* what a handler returns; 500 is what Flask answers for an uncaught exception
Response(handler, status, body) ==
  [handler |-> handler, status |-> status, body |-> body]

T_NOCOMMAND == <<"N", "O", "C", "O", "M", "M", "A", "N", "D">>

\* '\n'.join(lines)
RECURSIVE JoinLines(_)
JoinLines(lines) ==
  IF lines = <<>> THEN <<>>
  ELSE IF Len(lines) = 1 THEN lines[1]
  ELSE lines[1] \o <<"\n">> \o JoinLines(Tail(lines))

\* list(reversed(history))
Reversed(s) == [i \in 1..Len(s) |-> s[Len(s) - i + 1]]

\* appendleft on a deque without maxlen
AppendLeftMutant(h, rec) == <<rec>> \o h

\* a full deque that drops its left end instead
AppendLeftDropsNewestMutant(h, rec) ==
  IF Len(h) >= MAX_HISTORY THEN <<rec>> \o Tail(h)
  ELSE <<rec>> \o h

\* deque(maxlen=MAX_HISTORY).appendleft(rec): a full deque drops its right end
AppendLeft(h, rec) ==
  IF Len(h) >= MAX_HISTORY THEN <<rec>> \o SubSeq(h, 1, MAX_HISTORY - 1)
  ELSE <<rec>> \o h

\* a pop that also drops what follows position i
PopAtMutant(s, i) == SubSeq(s, 1, i)

\* list.pop(i) for a zero-based i within range
PopAt(s, i) == SubSeq(s, 1, i) \o SubSeq(s, i + 2, Len(s))

Init ==
  /\ history = <<>>
  /\ history_lock = 0
  /\ commands = <<>>
  /\ commands_lock = 0
  /\ cmd_counter = 0
  /\ pc = [t \in Threads |-> "idle"]
  /\ record = [t \in Threads |-> NoRecord]
  /\ response_lines = [t \in Threads |-> <<>>]
  /\ cmd = [t \in Threads |-> NoCmd]
  /\ index = [t \in Threads |-> 0]
  /\ hist_list = [t \in Threads |-> <<>>]
  /\ cmds_copy = [t \in Threads |-> <<>>]
  /\ response = NoResponse
  /\ rid = [t \in Threads |-> 0]
  /\ turns = 0
  /\ started = 0
  /\ appends = 0
  /\ appended = <<>>
  /\ removed = <<>>
  /\ delivered = <<>>
  /\ seen = [t \in Threads |-> <<>>]
  /\ recorded = [t \in Threads |-> FALSE]

\* a worker thread picks up a new request, while fewer than max were started
Begin(t, max) ==
  /\ pc[t] = "idle"
  /\ started < max
  /\ started' = started + 1

\* the turns at the outbox lock are numbered as they are taken
Stamp(t) ==
  /\ turns' = turns + 1
  /\ rid' = [rid EXCEPT ![t] = turns + 1]

\* the handler returns: the thread is free again
Return(t, resp) ==
  /\ pc' = [pc EXCEPT ![t] = "idle"]
  /\ response' = resp
  /\ rid' = [rid EXCEPT ![t] = 0]

Goto(t, label) == pc' = [pc EXCEPT ![t] = label]

\* a lock that never excludes anybody
LockFreeMutant(holder) == TRUE

\* threading.Lock: `with lock:` enters only when no thread holds the lock
LockFree(holder) == holder = 0

\* ------------------------------------------------------------ mt4_webhook
\* a handler that goes to the drain without appending its record
WebhookReceiveMutant(t, raw_body, max) ==
  /\ Begin(t, max)
  /\ IF RecordRaises(Decode(raw_body).parsed_json)
       THEN /\ Return(t, Response("mt4_webhook", 500, <<>>))
            /\ UNCHANGED record
       ELSE /\ record' = [record EXCEPT ![t] = BuildRecord(raw_body)]
            /\ UNCHANGED rid
            /\ Goto(t, "wh_cmd_lock")
            /\ UNCHANGED response
  /\ UNCHANGED <<history, history_lock, commands, commands_lock, cmd_counter,
                 cmd, index, hist_list, cmds_copy, appends, appended,
                 removed, seen,
                 response_lines, delivered,
                 turns,
                 recorded>>

\* lines 115-160: read the body, decode it, build the record
WebhookReceive(t, raw_body, max) ==
  /\ Begin(t, max)
  /\ IF RecordRaises(Decode(raw_body).parsed_json)
       THEN /\ Return(t, Response("mt4_webhook", 500, <<>>))
            /\ UNCHANGED record
       ELSE /\ record' = [record EXCEPT ![t] = BuildRecord(raw_body)]
            /\ UNCHANGED rid
            /\ Goto(t, "wh_hist_lock")
            /\ UNCHANGED response
  /\ UNCHANGED <<history, history_lock, commands, commands_lock, cmd_counter,
                 cmd, index, hist_list, cmds_copy, appends, appended,
                 removed, seen,
                 response_lines, delivered,
                 turns,
                 recorded>>

\* line 162: with history_lock
WebhookHistLock(t) ==
  /\ pc[t] = "wh_hist_lock"
  /\ LockFree(history_lock)
  /\ history_lock' = t
  /\ Goto(t, "wh_append")
  /\ UNCHANGED <<history, commands, commands_lock, cmd_counter, record, cmd,
                 index, hist_list, cmds_copy, response, rid, started,
                 appends, appended, removed, seen,
                 response_lines, delivered,
                 turns,
                 recorded>>

\* line 163, and the lock is released
WebhookAppend(t) ==
  /\ pc[t] = "wh_append"
  /\ history' = AppendLeft(history, [record[t] EXCEPT !.seq = appends + 1])
  /\ appends' = appends + 1
  /\ recorded' = [recorded EXCEPT ![t] = TRUE]
  /\ history_lock' = 0
  /\ record' = [record EXCEPT ![t] = NoRecord]
  /\ Goto(t, "wh_cmd_lock")
  /\ UNCHANGED <<commands, commands_lock, cmd_counter, cmd, index, hist_list,
                 cmds_copy, response, rid, started, appended, removed, seen,
                 response_lines, delivered,
                 turns>>

\* line 167: with commands_lock
WebhookCmdLock(t) ==
  /\ pc[t] = "wh_cmd_lock"
  /\ LockFree(commands_lock)
  /\ commands_lock' = t
  /\ Stamp(t)
  /\ seen' = [seen EXCEPT ![t] = commands]
  /\ Goto(t, "wh_format")
  /\ UNCHANGED <<history, history_lock, commands, cmd_counter, record, cmd,
                 index, hist_list, cmds_copy, response, started,
                 appends, appended, removed,
                 response_lines, delivered,
                 recorded>>

\* lines 168-170: one formatted line per command, front to back
ResponseLines(cmds) == [i \in 1..Len(cmds) |-> format_command(cmds[i])]

\* lines 173-176
ResponseBody(lines) ==
  IF lines # <<>> THEN JoinLines(lines) ELSE T_NOCOMMAND

\* a clear that leaves the list as it is
ClearedMutant(cmds) == cmds

\* commands.clear() (lines 171 and 222)
Cleared(cmds) == <<>>

Removal(by, r, cmds) ==
  [i \in 1..Len(cmds) |-> [by |-> by, rid |-> r, uid |-> cmds[i].uid]]

\* lines 168-170: the loop that formats the commands, under the lock
WebhookFormat(t) ==
  /\ pc[t] = "wh_format"
  /\ response_lines' = [response_lines EXCEPT ![t] = ResponseLines(commands)]
  /\ delivered' = delivered \o Removal("drain", rid[t], commands)
  /\ Goto(t, "wh_clear")
  /\ UNCHANGED <<history, history_lock, commands, commands_lock, cmd_counter,
                 record, cmd, index, hist_list, cmds_copy, response, rid,
                 started, appends, appended, removed, seen,
                 turns,
                 recorded>>

\* lines 171-176: clear the list, release the lock, answer
WebhookClear(t) ==
  /\ pc[t] = "wh_clear"
  /\ commands' = Cleared(commands)
  /\ removed' = removed \o Removal("drain", rid[t], commands)
  /\ commands_lock' = 0
  /\ seen' = [seen EXCEPT ![t] = <<>>]
  /\ response_lines' = [response_lines EXCEPT ![t] = <<>>]
  /\ recorded' = [recorded EXCEPT ![t] = FALSE]
  /\ Return(t, Response("mt4_webhook", 200, ResponseBody(response_lines[t])))
  /\ UNCHANGED <<history, history_lock, cmd_counter, record, cmd, index,
                 hist_list, cmds_copy, started, appends, appended, delivered,
                 turns>>

\* ----------------------------------------------------------- send_command
T_BUY_U == <<"B", "U", "Y">>
T_SELL_U == <<"S", "E", "L", "L">>

\* lines 181-185
Clean(form) ==
  Form(Upper(Strip(form.symbol)), Upper(Strip(form.direction)),
       Strip(form.volume), Strip(form.sl), Strip(form.tp))

\* the gate without its direction test
RejectedMutant(f) == f.symbol = <<>> \/ f.volume = <<>>

\* line 187
Rejected(f) ==
  f.symbol = <<>> \/ f.direction \notin {T_BUY_U, T_SELL_U} \/ f.volume = <<>>

\* lines 190-195: ValueError from one of the float() calls
BadNumber(f) ==
  \/ ~ParseFloat(f.volume).ok
  \/ f.sl # <<>> /\ ~ParseFloat(f.sl).ok
  \/ f.tp # <<>> /\ ~ParseFloat(f.tp).ok

\* lines 191-205; uid is not a field of the program's command: it is the
\* number of the request that built it (it tells which dict is which)
MakeCmd(f, counter, uid) ==
  [id        |-> counter,
   uid       |-> uid,
   symbol    |-> f.symbol,
   direction |-> f.direction,
   volume    |-> ParseFloat(f.volume).val,
   sl        |-> IF f.sl # <<>> THEN ParseFloat(f.sl).val ELSE None,
   tp        |-> IF f.tp # <<>> THEN ParseFloat(f.tp).val ELSE None]

\* lines 181-205: validate the form and build the command; cmd_counter is
\* read here, before the lock is taken
SendBuild(t, form, max) ==
  /\ Begin(t, max)
  /\ IF Rejected(Clean(form)) \/ BadNumber(Clean(form))
       THEN /\ Return(t, Response("send_command", 302, <<>>))
            /\ UNCHANGED cmd
       ELSE /\ cmd' = [cmd EXCEPT ![t] = MakeCmd(Clean(form), cmd_counter, started + 1)]
            /\ UNCHANGED rid
            /\ Goto(t, "sc_lock")
            /\ UNCHANGED response
  /\ UNCHANGED <<history, history_lock, commands, commands_lock, cmd_counter,
                 record, index, hist_list, cmds_copy, appends, appended,
                 removed, seen,
                 response_lines, delivered,
                 turns,
                 recorded>>

\* line 206: with commands_lock
SendLock(t) ==
  /\ pc[t] = "sc_lock"
  /\ LockFree(commands_lock)
  /\ commands_lock' = t
  /\ seen' = [seen EXCEPT ![t] = commands]
  /\ Goto(t, "sc_append")
  /\ UNCHANGED <<history, history_lock, commands, cmd_counter, record, cmd,
                 index, hist_list, cmds_copy, response, rid, started,
                 appends, appended, removed,
                 response_lines, delivered,
                 turns,
                 recorded>>

\* lines 207-210: append, count, release the lock, redirect
SendAppend(t) ==
  /\ pc[t] = "sc_append"
  /\ commands' = Append(commands, cmd[t])
  /\ appended' = Append(appended, cmd[t])
  /\ cmd_counter' = cmd_counter + 1
  /\ commands_lock' = 0
  /\ seen' = [seen EXCEPT ![t] = <<>>]
  /\ cmd' = [cmd EXCEPT ![t] = NoCmd]
  /\ Return(t, Response("send_command", 302, <<>>))
  /\ UNCHANGED <<history, history_lock, record, index, hist_list, cmds_copy,
                 started, appends, removed,
                 response_lines, delivered,
                 turns,
                 recorded>>

\* --------------------------------------------------------- delete_command
\* line 214: with commands_lock (the route only matches index >= 0)
DeleteLock(t, i, max) ==
  /\ Begin(t, max)
  /\ LockFree(commands_lock)
  /\ commands_lock' = t
  /\ index' = [index EXCEPT ![t] = i]
  /\ seen' = [seen EXCEPT ![t] = commands]
  /\ Stamp(t)
  /\ Goto(t, "dc_pop")
  /\ UNCHANGED <<history, history_lock, commands, cmd_counter, record, cmd,
                 hist_list, cmds_copy, response, appends, appended, removed,
                 response_lines, delivered,
                 recorded>>

\* a test that never lets position 0 through
InBoundsMutant(i, cmds) == 0 < i /\ i < Len(cmds)

\* line 215
InBounds(i, cmds) == 0 <= i /\ i < Len(cmds)

\* lines 215-217
DeletePop(t) ==
  /\ pc[t] = "dc_pop"
  /\ IF InBounds(index[t], commands)
       THEN /\ commands' = PopAt(commands, index[t])
            /\ removed' = removed \o
                 Removal("delete", rid[t], <<commands[index[t] + 1]>>)
       ELSE UNCHANGED <<commands, removed>>
  /\ commands_lock' = 0
  /\ seen' = [seen EXCEPT ![t] = <<>>]
  /\ index' = [index EXCEPT ![t] = 0]
  /\ Return(t, Response("delete_command", 302, <<>>))
  /\ UNCHANGED <<history, history_lock, cmd_counter, record, cmd, hist_list,
                 cmds_copy, started, appends, appended,
                 response_lines, delivered,
                 turns,
                 recorded>>

\* --------------------------------------------------------- clear_commands
\* line 221: with commands_lock
ClearLock(t, max) ==
  /\ Begin(t, max)
  /\ LockFree(commands_lock)
  /\ commands_lock' = t
  /\ seen' = [seen EXCEPT ![t] = commands]
  /\ Stamp(t)
  /\ Goto(t, "cc_clear")
  /\ UNCHANGED <<history, history_lock, commands, cmd_counter, record, cmd,
                 index, hist_list, cmds_copy, response, appends, appended,
                 removed,
                 response_lines, delivered,
                 recorded>>

\* a clear that empties the history as well
ClearAllMutant(t) ==
  /\ pc[t] = "cc_clear"
  /\ commands' = Cleared(commands)
  /\ history' = <<>>
  /\ removed' = removed \o Removal("clear", rid[t], commands)
  /\ commands_lock' = 0
  /\ seen' = [seen EXCEPT ![t] = <<>>]
  /\ Return(t, Response("clear_commands", 302, <<>>))
  /\ UNCHANGED <<history_lock, cmd_counter, record, cmd, index,
                 hist_list, cmds_copy, started, appends, appended,
                 response_lines, delivered,
                 turns,
                 recorded>>

\* lines 222-223
ClearAll(t) ==
  /\ pc[t] = "cc_clear"
  /\ commands' = Cleared(commands)
  /\ removed' = removed \o Removal("clear", rid[t], commands)
  /\ commands_lock' = 0
  /\ seen' = [seen EXCEPT ![t] = <<>>]
  /\ Return(t, Response("clear_commands", 302, <<>>))
  /\ UNCHANGED <<history, history_lock, cmd_counter, record, cmd, index,
                 hist_list, cmds_copy, started, appends, appended,
                 response_lines, delivered,
                 turns,
                 recorded>>

\* ------------------------------------------------------------------ index
\* line 98: with history_lock
IndexHistLock(t, max) ==
  /\ Begin(t, max)
  /\ LockFree(history_lock)
  /\ history_lock' = t
  /\ UNCHANGED rid
  /\ Goto(t, "ix_snapshot")
  /\ UNCHANGED <<history, commands, commands_lock, cmd_counter, record, cmd,
                 index, hist_list, cmds_copy, response, appends, appended,
                 removed, seen,
                 response_lines, delivered,
                 turns,
                 recorded>>

\* line 99
Snapshot(h) == Reversed(h)

\* the record dict is shared by the deque and by every snapshot that holds
\* it: a write through one reference shows through all of them
Shared(list, rec) ==
  [i \in 1..Len(list) |-> IF list[i].seq = rec.seq THEN rec ELSE list[i]]

\* line 99: copy the history into the snapshot, under the lock
IndexSnapshot(t) ==
  /\ pc[t] = "ix_snapshot"
  /\ hist_list' = [hist_list EXCEPT ![t] = Snapshot(history)]
  /\ Goto(t, "ix_extract")
  /\ UNCHANGED <<history, history_lock, commands, commands_lock, cmd_counter,
                 record, cmd, index, cmds_copy, response, rid, started,
                 appends, appended, removed, seen,
                 response_lines, delivered,
                 turns,
                 recorded>>

\* an extraction that keeps the history lock when it is done
IndexExtractMutant(t) ==
  /\ pc[t] = "ix_extract"
  /\ IF hist_list[t] = <<>>
       THEN /\ Goto(t, "ix_cmd_lock")
            /\ UNCHANGED <<history, hist_list, response, rid>>
       ELSE LET latest_record == hist_list[t][1]
                ex == extract_latest_details(latest_record)
            IN  /\ history' = Shared(history, ex.record)
                /\ hist_list' = [u \in Threads |->
                                   IF u = t /\ ex.raises THEN <<>>
                                   ELSE Shared(hist_list[u], ex.record)]
                /\ IF ex.raises
                     THEN Return(t, Response("index", 500, <<>>))
                     ELSE Goto(t, "ix_cmd_lock") /\ UNCHANGED <<response, rid>>
  /\ UNCHANGED <<history_lock, commands, commands_lock, cmd_counter, record,
                 cmd, index, cmds_copy, started, appends, appended, removed,
                 seen,
                 response_lines, delivered,
                 turns,
                 recorded>>

\* lines 100-101: the latest record and its details, still under the lock;
\* the lock is released when the block is left, also when
\* extract_latest_details raises
IndexExtract(t) ==
  /\ pc[t] = "ix_extract"
  /\ history_lock' = 0
  /\ IF hist_list[t] = <<>>
       THEN /\ Goto(t, "ix_cmd_lock")
            /\ UNCHANGED <<history, hist_list, response, rid>>
       ELSE LET latest_record == hist_list[t][1]
                ex == extract_latest_details(latest_record)
            IN  /\ history' = Shared(history, ex.record)
                /\ hist_list' = [u \in Threads |->
                                   IF u = t /\ ex.raises THEN <<>>
                                   ELSE Shared(hist_list[u], ex.record)]
                /\ IF ex.raises
                     THEN Return(t, Response("index", 500, <<>>))
                     ELSE Goto(t, "ix_cmd_lock") /\ UNCHANGED <<response, rid>>
  /\ UNCHANGED <<commands, commands_lock, cmd_counter, record, cmd, index,
                 cmds_copy, started, appends, appended, removed, seen,
                 response_lines, delivered,
                 turns,
                 recorded>>

\* line 102: with commands_lock
IndexCmdLock(t) ==
  /\ pc[t] = "ix_cmd_lock"
  /\ LockFree(commands_lock)
  /\ commands_lock' = t
  /\ seen' = [seen EXCEPT ![t] = commands]
  /\ Goto(t, "ix_copy")
  /\ UNCHANGED <<history, history_lock, commands, cmd_counter, record, cmd,
                 index, hist_list, cmds_copy, response, rid, started,
                 appends, appended, removed,
                 response_lines, delivered,
                 turns,
                 recorded>>

\* line 103: copy the command list, release the lock
IndexCopy(t) ==
  /\ pc[t] = "ix_copy"
  /\ cmds_copy' = [cmds_copy EXCEPT ![t] = commands]
  /\ commands_lock' = 0
  /\ seen' = [seen EXCEPT ![t] = <<>>]
  /\ Goto(t, "ix_render")
  /\ UNCHANGED <<history, history_lock, commands, cmd_counter, record, cmd,
                 index, hist_list, response, rid, started, appends,
                 appended, removed,
                 response_lines, delivered,
                 turns,
                 recorded>>

\* lines 104-111: render the page from the snapshot and the copy
IndexRender(t) ==
  /\ pc[t] = "ix_render"
  /\ hist_list' = [hist_list EXCEPT ![t] = <<>>]
  /\ cmds_copy' = [cmds_copy EXCEPT ![t] = <<>>]
  /\ Return(t, Response("index", 200, <<>>))
  /\ UNCHANGED <<history, history_lock, commands, commands_lock, cmd_counter,
                 record, cmd, index, started, appends, appended, removed,
                 seen,
                 response_lines, delivered,
                 turns,
                 recorded>>

\* ---------------------------------------------------------- specifications
\* Spec: all five handlers, run concurrently by the worker threads
Next ==
  \E t \in Threads :
    \/ \E b \in Bodies : WebhookReceive(t, b, MaxRequests)
    \/ WebhookHistLock(t)
    \/ WebhookAppend(t)
    \/ WebhookCmdLock(t)
    \/ WebhookFormat(t)
    \/ WebhookClear(t)
    \/ \E f \in Forms : SendBuild(t, f, MaxRequests)
    \/ SendLock(t)
    \/ SendAppend(t)
    \/ \E i \in 0..MaxDeleteIndex : DeleteLock(t, i, MaxRequests)
    \/ DeletePop(t)
    \/ ClearLock(t, MaxRequests)
    \/ ClearAll(t)
    \/ IndexHistLock(t, MaxRequests)
    \/ IndexSnapshot(t)
    \/ IndexExtract(t)
    \/ IndexCmdLock(t)
    \/ IndexCopy(t)
    \/ IndexRender(t)

Spec == Init /\ [][Next]_vars

\* SpecForms: send_command over every form
NextForms ==
  \E t \in Threads :
    \/ \E f \in AllForms : SendBuild(t, f, MaxFormRequests)
    \/ SendLock(t)
    \/ SendAppend(t)

SpecForms == Init /\ [][NextForms]_vars

\* SpecBodies: mt4_webhook over every body, and the dashboard that reads the
\* records
NextBodies ==
  \E t \in Threads :
    \/ \E b \in AllBodies : WebhookReceive(t, b, MaxBodyRequests)
    \/ WebhookHistLock(t)
    \/ WebhookAppend(t)
    \/ WebhookCmdLock(t)
    \/ WebhookFormat(t)
    \/ WebhookClear(t)
    \/ IndexHistLock(t, MaxBodyRequests)
    \/ IndexSnapshot(t)
    \/ IndexExtract(t)
    \/ IndexCmdLock(t)
    \/ IndexCopy(t)
    \/ IndexRender(t)

SpecBodies == Init /\ [][NextBodies]_vars

\* SpecRing: enough ingestion requests to fill the history and overflow it
NextRing ==
  \E t \in Threads :
    \/ WebhookReceive(t, B_OBJ0, MaxRingRequests)
    \/ WebhookHistLock(t)
    \/ WebhookAppend(t)
    \/ WebhookCmdLock(t)
    \/ WebhookFormat(t)
    \/ WebhookClear(t)

SpecRing == Init /\ [][NextRing]_vars

\* a step of thread t inside a handler it has entered
Continue(t) ==
  \/ WebhookHistLock(t)
  \/ WebhookAppend(t)
  \/ WebhookCmdLock(t)
  \/ WebhookFormat(t)
  \/ WebhookClear(t)
  \/ SendLock(t)
  \/ SendAppend(t)
  \/ DeletePop(t)
  \/ ClearAll(t)
  \/ IndexSnapshot(t)
  \/ IndexExtract(t)
  \/ IndexCmdLock(t)
  \/ IndexCopy(t)
  \/ IndexRender(t)

\* SpecFair: all five handlers, each worker thread being scheduled again and
\* again while it can take a step (no request is abandoned midway)
NextFair ==
  \E t \in Threads :
    \/ \E b \in Bodies : WebhookReceive(t, b, MaxFairRequests)
    \/ \E f \in Forms : SendBuild(t, f, MaxFairRequests)
    \/ \E i \in 0..MaxDeleteIndex : DeleteLock(t, i, MaxFairRequests)
    \/ ClearLock(t, MaxFairRequests)
    \/ IndexHistLock(t, MaxFairRequests)
    \/ Continue(t)

SpecFair ==
  Init /\ [][NextFair]_vars /\ \A t \in Threads : WF_vars(Continue(t))

\* ------------------------------------------------------------------ claims
Idle == \A t \in Threads : pc[t] = "idle"

Uids(log) == {log[i].uid : i \in 1..Len(log)}

Times(u, log) == Cardinality({i \in 1..Len(log) : log[i].uid = u})

\* C1: at-most-once delivery.  No command is put into two ingestion
\* responses (nor twice into one), and a command a drain has removed is never
\* in the outbox again.
C1_AtMostOnce ==
  /\ \A i, j \in 1..Len(delivered) : i # j => delivered[i].uid # delivered[j].uid
  /\ \A i \in 1..Len(removed) :
       removed[i].by = "drain" => removed[i].uid \notin Uids(commands)

\* two ingestion requests have run to their end and one of them delivered
C1_Witness == Idle /\ appends = 2 /\ Len(delivered) = 1 /\ Len(removed) = 1

\* C2: no silent loss.  Every appended command is, exactly once, either in
\* the outbox or in the removal log (drain, delete or clear); nothing else is
\* in either; and what a drain removed is what that very request delivered.
C2_NoSilentLoss ==
  /\ \A a \in 1..Len(appended) :
       Times(appended[a].uid, commands) + Times(appended[a].uid, removed) = 1
  /\ Uids(commands) \cup Uids(removed) \subseteq Uids(appended)
  /\ \A i \in 1..Len(removed) :
       removed[i].by = "drain" =>
         Cardinality({j \in 1..Len(delivered) : delivered[j] = removed[i]}) = 1
  /\ \A j \in 1..Len(delivered) :
       \/ \E i \in 1..Len(removed) : removed[i] = delivered[j]
       \/ \E t \in Threads : pc[t] = "wh_clear" /\ rid[t] = delivered[j].rid

\* two commands were appended: one was deleted, the other is still queued
C2_Witness ==
  /\ Len(appended) = 2
  /\ Len(commands) = 1
  /\ \E i \in 1..Len(removed) : removed[i].by = "delete"

\* C3: any two commands ever appended have different ids.
C3_UniqueIds ==
  \A i, j \in 1..Len(appended) : i # j => appended[i].id # appended[j].id

\* C4: every ingestion request is answered 200, with NOCOMMAND or with
\* command lines, whatever its body.
C4_Always200 ==
  response.handler = "mt4_webhook" =>
    response.status = 200 /\ response.body # <<>>

NonObject(b) ==
  Decode(b).parse_error = NoError /\ Decode(b).parsed_json.t # "obj"

\* C5: a body whose first JSON value is valid but not an object is taken as
\* parsed: the request goes on to append a record without parse error and
\* with null headline fields.
C5_NonObjectAccepted ==
  [][\A t \in Threads, b \in AllBodies :
       WebhookReceive(t, b, MaxBodyRequests) /\ NonObject(b) =>
         /\ pc'[t] = "wh_hist_lock"
         /\ record'[t].parse_error = NoError
         /\ record'[t].account = JNull
         /\ record'[t].balance = JNull]_vars

Least(a, b) == IF a < b THEN a ELSE b

\* C6: ring bound.  After N appends the history holds min(N, MAX_HISTORY)
\* records, so never more than MAX_HISTORY.
C6_RingBound == Len(history) = Least(appends, MAX_HISTORY)

\* more records were appended than the history holds
C6_Witness == appends > MAX_HISTORY /\ Len(history) = MAX_HISTORY

\* C7: the snapshot of the dashboard is newest-first: every element was
\* appended later than the elements after it.
C7_SnapshotNewestFirst ==
  \A t \in Threads : \A i, j \in 1..Len(hist_list[t]) :
    i < j => hist_list[t][i].seq > hist_list[t][j].seq

Positive(x) == x.k = "fin" /\ ~x.neg /\ x.m > 0

\* C8: every command in the outbox has a positive volume.
C8_PositiveVolume ==
  \A k \in 1..Len(commands) : Positive(commands[k].volume)

Blank(text) == \A i \in 1..Len(text) : text[i] \in WS

NotANumber(text) == ~Blank(text) /\ ~ParseFloat(Strip(text)).ok

\* the forms the validation gate is to turn away
Invalid(form) ==
  \/ Blank(form.symbol)
  \/ Upper(Strip(form.direction)) \notin {T_BUY_U, T_SELL_U}
  \/ Blank(form.volume)
  \/ NotANumber(form.volume)
  \/ NotANumber(form.sl)
  \/ NotANumber(form.tp)

WellFormed(c) ==
  /\ c.symbol # <<>>
  /\ c.symbol = Upper(c.symbol)
  /\ \A i \in 1..Len(c.symbol) : c.symbol[i] \notin WS
  /\ c.direction \in {T_BUY_U, T_SELL_U}

\* C9: validation gate.  A request with an invalid form returns at once and
\* leaves the outbox, the id counter and the thread's command as they were;
\* and every command in the outbox has a non-empty upper-cased symbol and a
\* direction BUY or SELL (the outbox starts empty, so it is enough that every
\* step leaves it so).
C9_ValidationGate ==
  [][/\ \A k \in 1..Len(commands') : WellFormed(commands'[k])
     /\ \A t \in Threads, f \in AllForms :
          SendBuild(t, f, MaxFormRequests) /\ Invalid(f) =>
            /\ pc'[t] = "idle"
            /\ UNCHANGED <<commands, cmd_counter, cmd, appended>>]_vars

\* a form was turned away while a command is queued
C9_Witness == Idle /\ started = 2 /\ Len(appended) = 1 /\ Len(commands) = 1

\* C10: atomic drain.  When an ingestion request releases the outbox lock,
\* its lines are the formatted commands the outbox held when it took the
\* lock, in queue order, nothing has been added or removed meanwhile, its
\* answer is made of those lines, and the outbox is left empty.
C10_AtomicDrain ==
  [][\A t \in Threads :
       pc[t] = "wh_clear" /\ pc'[t] = "idle" =>
         /\ Len(response_lines[t]) = Len(seen[t])
         /\ \A i \in 1..Len(seen[t]) :
              response_lines[t][i] = format_command(seen[t][i])
         /\ commands = seen[t]
         /\ response'.body = IF seen[t] = <<>> THEN T_NOCOMMAND
                             ELSE JoinLines(response_lines[t])
         /\ commands' = <<>>
         /\ commands_lock' = 0]_vars

\* a drain holds the lock over a queued command while a send waits for it
C10_Witness ==
  \E t, u \in Threads :
    /\ pc[t] = "wh_clear"
    /\ Len(seen[t]) = 1
    /\ pc[u] = "sc_lock"

\* a step in which thread t answers an ingestion request: it returns from the
\* drain, or the request dies on the record literal
AnsweredBy(t) ==
  \/ WebhookClear(t)
  \/ \E b \in Bodies : WebhookReceive(t, b, MaxRequests) /\ pc'[t] = "idle"

\* C11: no-command idempotence.  An ingestion request answers NOCOMMAND
\* exactly when the outbox is empty at its drain; it does not error on an
\* empty outbox and leaves it empty; and an ingestion request answered right
\* after another one, nothing having been enqueued between them, answers
\* NOCOMMAND.
C11_NoCommandIdempotence ==
  [][\A t \in Threads :
       AnsweredBy(t) =>
         /\ response'.status = 200
         /\ response'.body = T_NOCOMMAND <=> commands = <<>>
         /\ commands = <<>> => commands' = <<>>
         /\ response.handler = "mt4_webhook" /\ response.status = 200 =>
              response'.body = T_NOCOMMAND]_vars

RECURSIVE JoinFields(_)
JoinFields(fields) ==
  IF Len(fields) = 1 THEN fields[1]
  ELSE fields[1] \o <<",">> \o JoinFields(Tail(fields))

\* how a number the operator typed is rendered on the wire
NumberField(text) == FloatText(ParseFloat(Strip(text)).val)

\* the fields of the wire line of a form: three when neither sl nor tp was
\* entered, five otherwise, with 0 in the place of the one that was not
WireFields(form) ==
  LET head == <<Upper(Strip(form.direction)), Upper(Strip(form.symbol)),
                NumberField(form.volume)>>
  IN  IF Blank(form.sl) /\ Blank(form.tp) THEN head
      ELSE head \o <<IF Blank(form.sl) THEN <<"0">> ELSE NumberField(form.sl),
                     IF Blank(form.tp) THEN <<"0">> ELSE NumberField(form.tp)>>

\* C12: wire line format.  The line format_command renders for the command
\* built from a form is DIRECTION,SYMBOL,VOLUME when neither sl nor tp was
\* entered and DIRECTION,SYMBOL,VOLUME,SL,TP otherwise, with 0 in the place
\* of the one not entered: three fields or five, never four; an sl or tp
\* entered as 0 is a field of its own.
C12_WireFormat ==
  [][\A t \in Threads, f \in AllForms :
       SendBuild(t, f, MaxFormRequests) /\ pc'[t] = "sc_lock" =>
         /\ Len(WireFields(f)) \in {3, 5}
         /\ format_command(cmd'[t]) = JoinFields(WireFields(f))]_vars

\* a command whose tp was entered as 0, without sl, is about to be queued
C12_Witness ==
  \E t \in Threads :
    /\ pc[t] = "sc_lock"
    /\ cmd[t].sl = None
    /\ cmd[t].tp = Fin(FALSE, 0, 0)

\* the list without the element at zero-based position i
Without(s, i) ==
  [k \in 1..(Len(s) - 1) |-> IF k <= i THEN s[k] ELSE s[k + 1]]

\* C13: delete bounds.  delete_command with a position outside
\* [0, length) when it holds the lock leaves the outbox as it is; with a
\* position inside, it removes the command at that position and keeps the
\* others in their order; either way it answers with the redirect, and no
\* other request changes the outbox between its test and its pop.
C13_DeleteBounds ==
  [][\A t \in Threads :
       pc[t] = "dc_pop" /\ pc'[t] = "idle" =>
         /\ commands = seen[t]
         /\ commands' = IF 0 <= index[t] /\ index[t] < Len(commands)
                          THEN Without(commands, index[t])
                          ELSE commands
         /\ response' = Response("delete_command", 302, <<>>)]_vars

\* a delete of position 0 holds the lock over two queued commands
C13_Witness ==
  \E t \in Threads :
    /\ pc[t] = "dc_pop"
    /\ index[t] = 0
    /\ Len(commands) = 2

\* C14: one parse outcome per record.  Every record of the history has
\* either a parsed value and no parse error, or a parse error and no parsed
\* value: never both, never neither.
C14_OneOutcome ==
  \A i \in 1..Len(history) :
    (history[i].parsed # JNull) # (history[i].parse_error # NoError)

Seqs(h) == {h[i].seq : i \in 1..Len(h)}

\* C15: records are immutable once appended.  A record that is in the
\* history before and after a step has the same content, and a record leaves
\* the history only when an append finds the history full.
C15_RecordsImmutable ==
  [][/\ \A i \in 1..Len(history), j \in 1..Len(history') :
          history[i].seq = history'[j].seq => history[i] = history'[j]
     /\ Seqs(history) \subseteq Seqs(history') \/ Len(history) = MAX_HISTORY]_vars

\* bodies made of one JSON value followed by more text
TrailingBodies == {B_TWO, B_TAIL, B_LONG}

\* the first JSON value of such a body
FirstValue(b) ==
  CASE b = B_TWO  -> JObj([k \in {"a"} |-> JNum(1)])
    [] b = B_TAIL -> JNum(5)
    [] b = B_LONG -> JObj(EmptyDict)

\* what follows it, trimmed and cut to TRAIL_MAX characters
TrailingData(b) ==
  CASE b = B_TWO  -> <<"{", "\"balance\"", ":", "2", "}">>
    [] b = B_TAIL -> <<"{", "}">>
    [] b = B_LONG -> [i \in 1..TRAIL_MAX |-> "1"]

\* C16: trailing data is diagnostic only.  For a body made of one valid JSON
\* value followed by more text, the request builds one record whose parsed
\* value is the first value and whose trailing data is the trimmed remainder
\* cut to 200 characters; it appends that record and no other; and nothing is
\* ever put into the outbox by an ingestion request.
C16_TrailingData ==
  [][/\ \A t \in Threads, b \in TrailingBodies :
          WebhookReceive(t, b, MaxBodyRequests) =>
            /\ pc'[t] = "wh_hist_lock"
            /\ record'[t].body_raw = b
            /\ record'[t].parse_error = NoError
            /\ record'[t].parsed = FirstValue(b)
            /\ record'[t].remaining_data = TrailingData(b)
            /\ UNCHANGED history
     /\ \A t \in Threads :
          pc[t] = "wh_append" /\ pc'[t] # "wh_append" =>
            history' = <<[record[t] EXCEPT !.seq = appends + 1]>> \o history
     /\ commands' = <<>>]_vars

AdminLabels == {"sc_lock", "sc_append", "dc_pop", "cc_clear"}

IngestionLabels == {"wh_hist_lock", "wh_append", "wh_cmd_lock", "wh_format", "wh_clear"}

\* a step of send_command, delete_command or clear_commands by thread t: it
\* moves within the handler, enters it, or is turned away at the gate
AdminStep(t) ==
  \/ pc[t] \in AdminLabels /\ pc'[t] # pc[t]
  \/ pc[t] = "idle" /\ pc'[t] \in AdminLabels
  \/ /\ pc[t] = "idle" /\ pc' = pc /\ started' # started
     /\ response'.handler = "send_command"

\* a step of mt4_webhook by thread t: it moves within the handler, enters
\* it, or dies on the record literal
IngestionStep(t) ==
  \/ pc[t] \in IngestionLabels /\ pc'[t] # pc[t]
  \/ pc[t] = "idle" /\ pc'[t] \in IngestionLabels
  \/ /\ pc[t] = "idle" /\ pc' = pc /\ started' # started
     /\ response'.handler = "mt4_webhook"

\* C17: admin operations leave the history untouched, accepted or rejected;
\* and the ingestion handler changes the outbox only by draining it: its
\* steps leave the outbox as it is, except the drain, which empties it.
C17_AdminLeavesHistory ==
  [][\A t \in Threads :
       /\ AdminStep(t) => history' = history
       /\ IngestionStep(t) => commands' = commands \/ commands' = <<>>
       /\ IngestionStep(t) => appended' = appended]_vars

\* a clear holds the lock while the history and the outbox both hold something
C17_Witness ==
  \E t \in Threads :
    /\ pc[t] = "cc_clear"
    /\ history # <<>>
    /\ commands # <<>>

\* C18: eviction is oldest-first.  The history holds the records of the
\* most recent appends, newest at the left: the record at position i is the
\* one appended i - 1 appends ago, so an append to a full history drops the
\* record appended earliest among those held, and no other.
C18_EvictsOldest ==
  \A i \in 1..Len(history) : history[i].seq = appends - i + 1

\* two records were evicted: the oldest one held is the third appended
C18_Witness ==
  /\ appends = MAX_HISTORY + 2
  /\ Len(history) = MAX_HISTORY
  /\ history[MAX_HISTORY].seq = 3

\* C19: queue order coincides with id order.  The ids of the commands in the
\* outbox are strictly increasing from front to back, in every state, and so
\* are the ids of what a drain found.
C19_IdsIncrease ==
  /\ \A i, j \in 1..Len(commands) : i < j => commands[i].id < commands[j].id
  /\ \A t \in Threads : \A i, j \in 1..Len(seen[t]) :
       i < j => seen[t][i].id < seen[t][j].id

\* C20: eventual hand-over.  Every ingestion request that is executed takes
\* with it every command the outbox holds at that time: when it is answered
\* the outbox is empty and each of those commands is among the lines of that
\* very request.  (So, the terminal polling on, a command leaves the outbox
\* with the first ingestion request executed after it was queued, unless a
\* delete or a clear removed it before.)
C20_HandOver ==
  [][\A t \in Threads :
       AnsweredBy(t) =>
         /\ commands' = <<>>
         /\ \A k \in 1..Len(commands) :
              \E j \in 1..Len(delivered) :
                /\ delivered[j].uid = commands[k].uid
                /\ delivered[j].rid = rid[t]
                /\ rid[t] # 0]_vars

\* C21: record before drain.  An ingestion request that is at the drain
\* (waiting for the outbox lock, formatting or clearing) has appended its
\* record before, and what it appended was its own record, put at the left
\* end of the history; one that has not appended yet has taken no turn at
\* the outbox, so nothing was delivered to it or removed by it.
C21_RecordBeforeDrain ==
  /\ [](\A t \in Threads :
          /\ pc[t] \in {"wh_cmd_lock", "wh_format", "wh_clear"} => recorded[t]
          /\ pc[t] \in {"wh_hist_lock", "wh_append"} =>
               /\ ~recorded[t]
               /\ rid[t] = 0
               /\ commands_lock # t
          /\ \A j \in 1..Len(delivered) : delivered[j].rid # 0
          /\ \A i \in 1..Len(removed) : removed[i].rid # 0)
  /\ [][\A t \in Threads :
          recorded'[t] /\ ~recorded[t] =>
            /\ appends' = appends + 1
            /\ history'[1] = [record[t] EXCEPT !.seq = appends']
            /\ UNCHANGED <<commands, delivered, removed>>]_vars

\* a request is about to clear a command it formatted, its record in the
\* history
C21_Witness ==
  \E t \in Threads :
    /\ pc[t] = "wh_clear"
    /\ seen[t] # <<>>
    /\ recorded[t]
    /\ history # <<>>

\* C22: no deadlock.  No thread holds the history lock and the outbox lock
\* at the same time, a lock is held only by a thread inside a handler, and
\* under fair scheduling every request that started runs to its end.
C22_NoDeadlock ==
  /\ [](\A t \in Threads : ~(history_lock = t /\ commands_lock = t))
  /\ [](\A t \in Threads : pc[t] = "idle" => history_lock # t /\ commands_lock # t)
  /\ \A t \in Threads : (pc[t] # "idle") ~> (pc[t] = "idle")

\* an index request waits for the outbox lock, which an ingestion request
\* holds
C22_Witness ==
  \E t, u \in Threads :
    /\ pc[t] = "ix_cmd_lock"
    /\ pc[u] = "wh_format"
    /\ commands_lock = u

\* C23: the history lock is held only for the append or for the copy of the
\* snapshot: a thread that holds it is at the append of mt4_webhook or at
\* the copy of index, never at the detail extraction; and an ingestion
\* request has read and decoded its body, and built its record, before it
\* holds any lock.
C23_ShortCriticalSection ==
  \A t \in Threads :
    /\ history_lock = t => pc[t] \in {"wh_append", "ix_snapshot"}
    /\ pc[t] = "wh_hist_lock" => history_lock # t /\ commands_lock # t

====
